---- MODULE Spec2Model ----
(***************************************************************************)
(* Skemmarize frontend: the HTTP auth interceptor (single-flight token     *)
(* refresh), AuthService, the route guards with the router that runs them, *)
(* and the HTTP transport.                                                 *)
(*                                                                         *)
(* Execution is the browser's event loop: every action below is one        *)
(* macrotask (a caller sending a request, or the transport delivering one  *)
(* response) together with everything the RxJS pipelines run               *)
(* synchronously inside it.                                                *)
(***************************************************************************)
EXTENDS Naturals, Integers, Sequences, FiniteSets, TLC

\* ------------------------------------------------------------------ bounds
\* Requests issued by application code (Home, ChatDetail, App ...).
NumReq == 3
\* /auth/logout requests that can be in flight or parked at the same time.
NumLogout == 2
\* refreshCalls counts refresh calls up to this value and then saturates.
RefreshCap == 2
\* replayed[r] counts re-sends of r up to this value and then saturates.
ReplayCap == 2

\* Requests sent in AppSpec, where the guards and the router run as well.
NumAppReq == 2

\* GET /auth/me requests sent in AuthSpec, where every AuthService operation
\* is called.
NumAuthReq == 1

\* Requests sent in ChatSpec: ChatDetail's own and one of other code.
NumChatReq == 2

UserIds == 1..NumReq
AppReqs == 1..NumAppReq
ChatReqs == 1..NumChatReq
LogoutIds == (NumReq + 1)..(NumReq + NumLogout)
Ids == UserIds \cup LogoutIds

\* What the transport can answer: a response, a 401, any other failure.
Outcomes == {"ok", "e401", "err"}

NoResult == <<"none", "none">>

\* A navigation is <<target, who called router.navigate>>.
NoNav == <<"none", "none">>

\* app.routes.ts: "" (Home) and "login"; "home" and "**" redirect to "".
Targets == {"/", "/login"}

VARIABLES
    isRefreshing,    \* auth.interceptor.ts:7
    subjectValue,    \* current value of refreshTokenSubject: "null" | "true" | "false"
    observers,       \* subscribers of refreshTokenSubject, in subscription order
    st,              \* per request: where its pipeline stands
    loggedIn,        \* AuthService._loggedIn
    currentUser,     \* AuthService._currentUser: "null" | "user"
    authChecked,     \* AuthService._authChecked
    caller,          \* per request: "api", or who subscribed to the GET /auth/me
                     \* of checkAuthStatus(): "app" | "guard", or Home's
                     \* "home" (onSummarize) | "history" (loadChatHistory),
                     \* or ChatDetail's "chat" (loadChatById)
    route,           \* the activated route: "none" | "/" | "/login"
    nav,             \* the navigation the router has been asked for and not begun
    inGuard,         \* the navigation whose guard waits for checkAuthStatus()
    currentImage,    \* Home.currentImage: "null" | "img"
    messages,        \* Home.messages
    isLoading,       \* Home.isLoading
    chatHistory,     \* Home.chatHistory: ids of the history items
    historyLoading,  \* Home.historyLoading
    chatItem,        \* ChatDetail.chatItem: <<>> (null) or <<id of the item>>
    loading,         \* ChatDetail.loading
    wantedId,        \* the id loadChatById was called with: <<>> or <<id>>
    chatPhase,       \* ChatDetail: "none" | "constructed" | "done" (ngOnInit ran)
    stale,           \* history: waiters whose refresh call has failed since they queued
    order401,        \* history: unresolved, not yet re-sent requests in the order
                     \* handle401Error saw their 401
    replayed,        \* history: how often the coordinator re-sent each request
    refreshCalls,    \* history: refresh calls issued so far (saturating)
    refreshResolved, \* history: some refresh call has been answered
    late401,         \* history: handle401Error ran after some refresh was answered
    seen401,         \* history: handle401Error has run at least once
    sentLate,        \* history: a request was first sent after a refresh call was issued
    last             \* what the last macrotask did

\* The signals of the Home component.
homeVars == <<currentImage, messages, isLoading, chatHistory, historyLoading>>

\* The ChatDetail component.
chatVars == <<chatItem, loading, wantedId, chatPhase>>

vars == <<isRefreshing, subjectValue, observers, st, loggedIn, currentUser,
          authChecked, caller, route, nav, inGuard, homeVars, chatVars, stale, order401,
          replayed, refreshCalls, refreshResolved, late401,
          seen401, sentLate, last>>

\* ------------------------------------------------------------ helpers
Min(S) == CHOOSE x \in S : \A y \in S : x <= y

SeqToSet(s) == {s[i] : i \in 1..Len(s)}

Without(s, S) == SelectSeq(s, LAMBDA x : x \notin S)

Reverse(s) == [i \in 1..Len(s) |-> s[Len(s) + 1 - i]]

IndexOf(s, x) == Min({i \in 1..Len(s) : s[i] = x})

Bump(n) == IF n < RefreshCap THEN n + 1 ELSE RefreshCap

\* What one macrotask did: which response it handled (act, out), whether
\* handle401Error was entered (h401) and issued a refresh call (refreshIssued),
\* how many AuthService.logout() and router.navigate(['/login']) calls the
\* interceptor made (logouts, navLogin), the re-sends it dispatched in dispatch
\* order (replays), the result handed to the caller of the request it completed
\* (delivered: <<where the result came from, outcome>>), the requests it
\* completed with the error of their own first response (origErr), the
\* re-sent requests that had outlived a failed refresh (staleReplays), what
\* checkAuthStatus() handed to its subscriber (check), whether that came from
\* the cached flag (cached) or checkAuthStatus() sent GET /auth/me (http), and
\* the guard that decided (guard), its return value (admit), the target it
\* navigated to (guardNav) and who had asked for the navigation it judged
\* (navBy), whose subscriber the completed request's result went to (to), and
\* whether queued requests were re-sent when isRefreshing was false already
\* (idleDrain), and the chatItem of history.state (navItem) and the route's id
\* parameter (param) that ChatDetail.ngOnInit read.
NoEffect ==
    [act |-> "init", out |-> "none", h401 |-> FALSE, refreshIssued |-> FALSE,
     logouts |-> 0, navLogin |-> 0, replays |-> <<>>, delivered |-> NoResult,
     origErr |-> {}, staleReplays |-> {},
     check |-> "none", cached |-> FALSE, http |-> FALSE,
     guard |-> "none", admit |-> FALSE, guardNav |-> "none", navBy |-> "none",
     to |-> "none", idleDrain |-> FALSE, navItem |-> <<>>, param |-> "none"]

\* ------------------------------------------------------- the interceptor
\* authInterceptor's catchError: what it does with a failed response.
authInterceptorCatch_NoUrlCheck(isRefreshUrl, o) ==
    IF o = "e401" THEN "handle401" ELSE "rethrow"

authInterceptorCatch_AnyStatus(isRefreshUrl, o) ==
    IF isRefreshUrl THEN "logoutRethrow" ELSE "handle401"

authInterceptorCatch_PassThrough(isRefreshUrl, o) == "rethrow"

authInterceptorCatch(isRefreshUrl, o) ==
    IF o = "e401"
    THEN IF isRefreshUrl THEN "logoutRethrow" ELSE "handle401"
    ELSE "rethrow"

\* handle401Error's first test.
handle401Branch_NoCheck(refreshing) == "refresh"

handle401Branch(refreshing) == IF refreshing THEN "wait" ELSE "refresh"

\* filter(token => token === true)
filterPasses(v) == v = "true"

\* Subject.next(v): the observers the value gets through to, in delivery order.
subjectNext_Lifo(obs, v) == IF filterPasses(v) THEN Reverse(obs) ELSE <<>>

subjectNext(obs, v) == IF filterPasses(v) THEN obs ELSE <<>>

\* The refresh call succeeded (lines 49-53): the re-sends in the order they
\* are dispatched. next(true) runs the waiters' switchMap before the
\* initiator's next(req) is returned and subscribed.
resendOrder_InitiatorFirst(woken, r) == <<r>> \o woken

resendOrder(woken, r) == woken \o <<r>>

\* The statements of switchMap's body on refresh success, in the order the
\* source has them (lines 50, 51, 52).
switchMapBody == <<"isRefreshing = false", "next(true)", "next(req)">>

\* isRefreshing at the moment statement s of the body runs, flag0 being its
\* value when the body is entered.
FlagAt(body, s, flag0) ==
    IF IndexOf(body, "isRefreshing = false") < IndexOf(body, s) THEN FALSE ELSE flag0

\* Where the error o of a re-sent request goes: next(req) (lines 41, 52) is the
\* handler behind authInterceptor, so its result does not pass authInterceptor's
\* catchError again.
resendRoute_Intercepted(o) == authInterceptorCatch(FALSE, o)

resendRoute(o) == "rethrow"

\* isRefreshing once the refresh call has ended with outcome o (lines 50, 55).
resolveRefreshing_OnSuccessOnly(o) == o # "ok"

resolveRefreshing(o) == FALSE

\* handle401Error's catchError re-throws what the inner pipe raised (line 60):
\* the error o of the refresh call or of the initiator's re-send (src).
catchErrorRethrow_FirstResponse(src, o) == <<"orig", "e401">>

catchErrorRethrow(src, o) == <<src, o>>

\* take(1): an observer that received a value is unsubscribed.
takeOne_Keep(obs, woken) == obs

takeOne(obs, woken) == Without(obs, SeqToSet(woken))

\* ------------------------------------------------------------ AuthService
FreeSlots(s) == {l \in LogoutIds : s[l] = "free"}

\* AuthService.logout(), n times: each call sends one GET /auth/logout.
RECURSIVE logout(_, _)
logout(s, n) ==
    IF n = 0 THEN s
    ELSE logout([s EXCEPT ![Min(FreeSlots(s))] = "sent"], n - 1)

\* The caller of request r receives its final result.
StDelivered(s, r) == [s EXCEPT ![r] = IF r \in LogoutIds THEN "free" ELSE "done"]

\* logout()'s subscriber (next / error / complete) clears the session.
LoggedInDelivered_Keep(r, v) == v

LoggedInDelivered(r, v) == IF r \in LogoutIds THEN FALSE ELSE v

UserDelivered(r, u) == IF r \in LogoutIds THEN "null" ELSE u

\* Request r is the GET /auth/me of a checkAuthStatus() call.
IsMe(r) == r \in UserIds /\ caller[r] \in {"app", "guard"}

\* checkAuthStatus(): what its subscriber receives when GET /auth/me ends with
\* outcome o (map(() => true), catchError(() => of(false))).
checkAuthStatusResult_NoCatch(o) == IF o = "ok" THEN "true" ELSE "error"

checkAuthStatusResult(o) == IF o = "ok" THEN "true" ELSE "false"

\* AuthService after the subscriber chain of request r has run on outcome o:
\* checkAuthStatus's tap / catchError for GET /auth/me, logout()'s subscriber
\* for GET /auth/logout.
LoggedInAfter(r, o) ==
    IF IsMe(r) THEN o = "ok" ELSE LoggedInDelivered(r, loggedIn)

UserAfter_KeepOnFailure(r, o) ==
    IF IsMe(r) /\ o = "ok" THEN "user" ELSE UserDelivered(r, currentUser)

UserAfter(r, o) ==
    IF IsMe(r) THEN (IF o = "ok" THEN "user" ELSE "null")
    ELSE UserDelivered(r, currentUser)

AuthCheckedAfter_ResetOnLogout(r, o) ==
    IF r \in LogoutIds THEN FALSE ELSE IsMe(r) \/ authChecked

AuthCheckedAfter(r, o) == IsMe(r) \/ authChecked

\* Request r is the POST /chats/summarize of an onSummarize() call, or the
\* GET of loadChatHistory().
IsSummarize(r) == r \in UserIds /\ caller[r] = "home"

IsHistory(r) == r \in UserIds /\ caller[r] = "history"

\* The messages onSummarize builds; "of" is the call they belong to (their
\* content and timestamp).
userMessage(r) == [type |-> "user", isError |-> FALSE, of |-> r]

aiMessage(r) == [type |-> "ai", isError |-> FALSE, of |-> r]

errorMessage(r) == [type |-> "ai", isError |-> TRUE, of |-> r]

\* The entries GET history returns: those the server stored before.
ServerHistory == <<0>>

\* Home after the subscriber of request r has run on outcome o: onSummarize's
\* next / error / complete, loadChatHistory's next / error.
MessagesAfter_SilentError(r, o) ==
    IF IsSummarize(r) /\ o = "ok" THEN Append(messages, aiMessage(r)) ELSE messages

MessagesAfter(r, o) ==
    IF IsSummarize(r)
    THEN Append(messages, IF o = "ok" THEN aiMessage(r) ELSE errorMessage(r))
    ELSE messages

IsLoadingAfter(r, o) == IF IsSummarize(r) THEN FALSE ELSE isLoading

ImageAfter(r, o) == IF IsSummarize(r) /\ o = "ok" THEN "null" ELSE currentImage

HistoryAfter(r, o) ==
    IF IsSummarize(r) /\ o = "ok" THEN <<r>> \o chatHistory
    ELSE IF IsHistory(r) /\ o = "ok" THEN ServerHistory
    ELSE chatHistory

HistoryLoadingAfter(r, o) == IF IsHistory(r) THEN FALSE ELSE historyLoading

\* Request r is the GET of ChatDetail.loadChatById().
IsChat(r) == r \in UserIds /\ caller[r] = "chat"

\* Number(id) of the route parameter; NaN stands for every value that is no
\* number, and equals no item's id.
NaN == 0 - 1

ToNumber(p) == CASE p = "0" -> 0 [] p = "7" -> 7 [] OTHER -> NaN

\* history.find(h => h.id === id) followed by item || null.
find(history, id) ==
    LET hit == SelectSeq(history, LAMBDA h : id # NaN /\ h = id)
    IN  IF hit = <<>> THEN <<>> ELSE <<Head(hit)>>

\* ChatDetail after loadChatById's subscriber has run on outcome o.
ChatItemAfter(r, o) ==
    IF IsChat(r) /\ o = "ok" THEN find(ServerHistory, Head(wantedId)) ELSE chatItem

LoadingAfter_OnSuccessOnly(r, o) == IF IsChat(r) /\ o = "ok" THEN FALSE ELSE loading

LoadingAfter(r, o) == IF IsChat(r) THEN FALSE ELSE loading

\* of(this._loggedIn)
Cached(v) == IF v THEN "true" ELSE "false"

\* ------------------------------------------------------ guards and router
\* app.routes.ts: canActivate of the route a navigation targets.
GuardOf(t) == IF t = "/login" THEN "public" ELSE "private"

\* PrivateGuard on the login status it reads or is handed: its return value
\* and the target it passes to router.navigate.
PrivateGuard_AdmitAll(isLoggedIn) == [admit |-> TRUE, nav |-> "none"]

PrivateGuard(isLoggedIn) ==
    IF isLoggedIn THEN [admit |-> TRUE, nav |-> "none"]
    ELSE [admit |-> FALSE, nav |-> "/login"]

PublicGuard_NoRedirect(isLoggedIn) == [admit |-> ~isLoggedIn, nav |-> "none"]

PublicGuard(isLoggedIn) ==
    IF ~isLoggedIn THEN [admit |-> TRUE, nav |-> "none"]
    ELSE [admit |-> FALSE, nav |-> "/"]

canActivate(g, isLoggedIn) ==
    IF g = "private" THEN PrivateGuard(isLoggedIn) ELSE PublicGuard(isLoggedIn)

\* The guard's map(...) on what checkAuthStatus() delivers; an error ends the
\* navigation without a decision.
guardOnResult(g, res) ==
    IF res = "error" THEN [admit |-> FALSE, nav |-> "none"]
    ELSE canActivate(g, res = "true")

\* The router after guard decision d on a navigation to t, p being the
\* navigation asked for meanwhile: an admitted target is activated, and a
\* router.navigate call replaces what was asked for before.
RouteAfter(d, t) == IF d.admit THEN t ELSE route

NavAfter(d, p) == IF d.nav # "none" THEN <<d.nav, "guard">> ELSE p

\* Request r is the GET /auth/me the waiting guard subscribed to.
IsGuardReq(r) == r \in UserIds /\ caller[r] = "guard"

GuardDecision(o) == guardOnResult(GuardOf(inGuard[1]), checkAuthStatusResult(o))

\* The router once the subscriber chain of request r has run on outcome o,
\* p being the navigation asked for before it ran: logout()'s subscriber
\* calls router.navigate(["/login"]), a waiting guard decides.
SubRoute(r, o) ==
    IF IsGuardReq(r) THEN RouteAfter(GuardDecision(o), inGuard[1]) ELSE route

SubNav(r, o, p) ==
    IF r \in LogoutIds THEN <<"/login", "logout">>
    ELSE IF IsGuardReq(r) THEN NavAfter(GuardDecision(o), p)
    ELSE p

SubInGuard(r) == IF IsGuardReq(r) THEN NoNav ELSE inGuard

\* The record of the step, with what the subscriber chain of request r did.
SubEffect(base, r, o) ==
    [base EXCEPT
        !.check = IF IsMe(r) THEN checkAuthStatusResult(o) ELSE "none",
        !.guard = IF IsGuardReq(r) THEN GuardOf(inGuard[1]) ELSE "none",
        !.admit = IsGuardReq(r) /\ GuardDecision(o).admit,
        !.guardNav = IF IsGuardReq(r) THEN GuardDecision(o).nav ELSE "none",
        !.navBy = IF IsGuardReq(r) THEN inGuard[2] ELSE "none",
        !.to = IF r \in LogoutIds THEN "logout" ELSE caller[r]]

\* ------------------------------------------------------------------ Init
\* The module-level state of auth.interceptor.ts and a freshly constructed
\* AuthService; no request has been sent and no route is activated.
Init ==
    /\ isRefreshing = FALSE
    /\ subjectValue = "null"
    /\ observers = <<>>
    /\ st = [r \in Ids |-> IF r \in UserIds THEN "new" ELSE "free"]
    /\ loggedIn = FALSE
    /\ currentUser = "null"
    /\ authChecked = FALSE
    /\ caller = [r \in UserIds |-> "api"]
    /\ route = "none"
    /\ nav = NoNav
    /\ inGuard = NoNav
    /\ currentImage = "null"
    /\ messages = <<>>
    /\ isLoading = FALSE
    /\ chatHistory = <<>>
    /\ historyLoading = FALSE
    /\ chatItem = <<>>
    /\ loading = TRUE
    /\ wantedId = <<>>
    /\ chatPhase = "none"
    /\ stale = {}
    /\ order401 = <<>>
    /\ replayed = [r \in Ids |-> 0]
    /\ refreshCalls = 0
    /\ refreshResolved = FALSE
    /\ late401 = FALSE
    /\ seen401 = FALSE
    /\ sentLate = FALSE
    /\ last = NoEffect

BumpReplay(rp, S) ==
    [q \in Ids |-> IF q \in S /\ rp[q] < ReplayCap THEN rp[q] + 1 ELSE rp[q]]

\* A logout slot that is handed back forgets its history.
Forget(f, r, v) == IF r \in LogoutIds THEN [f EXCEPT ![r] = v] ELSE f

\* switchMap(() => next(req)) of every waiter the subject's value got through to.
Wake(s, woken) == [q \in Ids |-> IF q \in SeqToSet(woken) THEN "replayW" ELSE s[q]]

\* --------------------------------------------------------------- actions
\* Application code sends a request through HttpClient (requests are numbered
\* in the order they are sent).
Send(r) ==
    /\ r \in UserIds
    /\ st[r] = "new"
    /\ \A q \in UserIds : q < r => st[q] # "new"
    /\ st' = [st EXCEPT ![r] = "sent"]
    /\ sentLate' = (sentLate \/ refreshCalls > 0)
    /\ last' = [NoEffect EXCEPT !.act = "send"]
    /\ UNCHANGED <<isRefreshing, subjectValue, observers, loggedIn, currentUser,
                   authChecked, caller, route, nav, inGuard, homeVars, chatVars,
                   stale, order401, replayed, refreshCalls, refreshResolved,
                   late401, seen401>>

\* The final result x of request r reaches its subscriber.
Deliver(r, x, base) ==
    /\ st' = StDelivered(st, r)
    /\ loggedIn' = LoggedInAfter(r, x[2])
    /\ currentUser' = UserAfter(r, x[2])
    /\ authChecked' = AuthCheckedAfter(r, x[2])
    /\ route' = SubRoute(r, x[2])
    /\ nav' = SubNav(r, x[2], nav)
    /\ inGuard' = SubInGuard(r)
    /\ currentImage' = ImageAfter(r, x[2])
    /\ messages' = MessagesAfter(r, x[2])
    /\ isLoading' = IsLoadingAfter(r, x[2])
    /\ chatHistory' = HistoryAfter(r, x[2])
    /\ historyLoading' = HistoryLoadingAfter(r, x[2])
    /\ chatItem' = ChatItemAfter(r, x[2])
    /\ loading' = LoadingAfter(r, x[2])
    /\ replayed' = Forget(replayed, r, 0)
    /\ last' = [SubEffect(base, r, x[2]) EXCEPT
                    !.delivered = x,
                    !.origErr = IF x[1] = "orig" /\ x[2] # "ok" THEN {r} ELSE {}]
    /\ UNCHANGED <<isRefreshing, subjectValue, observers, caller, wantedId,
                   chatPhase, stale, order401, refreshCalls, refreshResolved,
                   late401, seen401, sentLate>>

\* handle401Error(req, ...) for a request r whose response was a 401.
handle401Error(r, base) ==
    /\ seen401' = TRUE
    /\ late401' = (late401 \/ refreshResolved)
    /\ IF handle401Branch(isRefreshing) = "wait"
       THEN \* lines 38-42: subscribe to the BehaviorSubject, which first emits
            \* its current value
            /\ IF filterPasses(subjectValue)
               THEN /\ st' = [st EXCEPT ![r] = "replayW"]
                    /\ replayed' = BumpReplay(replayed, {r})
                    /\ last' = [base EXCEPT !.h401 = TRUE, !.replays = <<r>>]
                    /\ UNCHANGED <<observers, order401, stale>>
               ELSE /\ st' = [st EXCEPT ![r] = "waiting"]
                    /\ observers' = Append(observers, r)
                    /\ order401' = Append(order401, r)
                    /\ last' = [base EXCEPT !.h401 = TRUE]
                    /\ UNCHANGED <<replayed, stale>>
            /\ UNCHANGED <<isRefreshing, subjectValue, refreshCalls>>
       ELSE \* lines 45-48
            LET woken == subjectNext(observers, "null")
            IN  /\ isRefreshing' = TRUE
                /\ subjectValue' = "null"
                /\ observers' = takeOne(observers, woken)
                /\ st' = [Wake(st, woken) EXCEPT ![r] = "refreshing"]
                /\ replayed' = BumpReplay(replayed, SeqToSet(woken))
                /\ order401' = Append(Without(order401, SeqToSet(woken)), r)
                /\ stale' = stale \ SeqToSet(woken)
                /\ refreshCalls' = Bump(refreshCalls)
                /\ last' = [base EXCEPT !.h401 = TRUE, !.refreshIssued = TRUE,
                                        !.replays = woken,
                                        !.staleReplays = stale \cap SeqToSet(woken)]

\* The transport answers the first sending of request r.
Respond(r, o) ==
    /\ st[r] = "sent"
    /\ LET how == authInterceptorCatch(FALSE, o)
           base == [NoEffect EXCEPT !.act = "respond", !.out = o]
       IN  IF o # "ok" /\ how = "handle401"
           THEN /\ handle401Error(r, base)
                /\ UNCHANGED <<loggedIn, currentUser, authChecked, caller, route,
                               nav, inGuard, homeVars, chatVars, refreshResolved, sentLate>>
           ELSE Deliver(r, <<"orig", o>>, base)

\* handle401Error's catchError (lines 54-61) ends request r with error x;
\* nIntercept counts the logout() calls authInterceptor made in the same task.
\* The error reaches r's subscriber after logout() and router.navigate.
TerminalFailure(r, x, nIntercept, base) ==
    LET woken == subjectNext(observers, "false")
        n == nIntercept + 1
    IN  /\ Cardinality(FreeSlots(StDelivered(st, r))) >= n
        /\ isRefreshing' = resolveRefreshing(x[2])
        /\ subjectValue' = "false"
        /\ observers' = takeOne(observers, woken)
        /\ st' = logout(StDelivered(Wake(st, woken), r), n)
        /\ loggedIn' = LoggedInAfter(r, x[2])
        /\ currentUser' = UserAfter(r, x[2])
        /\ authChecked' = AuthCheckedAfter(r, x[2])
        /\ route' = SubRoute(r, x[2])
        /\ nav' = SubNav(r, x[2], <<"/login", "coordinator">>)
        /\ inGuard' = SubInGuard(r)
        /\ currentImage' = ImageAfter(r, x[2])
        /\ messages' = MessagesAfter(r, x[2])
        /\ isLoading' = IsLoadingAfter(r, x[2])
        /\ chatHistory' = HistoryAfter(r, x[2])
        /\ historyLoading' = HistoryLoadingAfter(r, x[2])
        /\ chatItem' = ChatItemAfter(r, x[2])
        /\ loading' = LoadingAfter(r, x[2])
        /\ order401' = Without(order401, {r} \cup SeqToSet(woken))
        /\ stale' = IF base.act = "refreshRespond"
                    THEN SeqToSet(takeOne(observers, woken))
                    ELSE stale \ SeqToSet(woken)
        /\ replayed' = Forget(BumpReplay(replayed, SeqToSet(woken)), r, 0)
        /\ sentLate' = TRUE
        /\ last' = [SubEffect(base, r, x[2]) EXCEPT
                        !.logouts = n, !.navLogin = 1, !.delivered = x,
                        !.replays = woken,
                        !.staleReplays = stale \cap SeqToSet(woken)]
        /\ UNCHANGED <<caller, wantedId, chatPhase, refreshCalls, late401, seen401>>

\* The refresh call (AuthService.refreshToken, issued for request r) succeeds:
\* tap (auth.service.ts:84-87), then switchMap (auth.interceptor.ts:49-53).
RefreshSuccess(r, base) ==
    LET woken == subjectNext(observers, "true")
    IN  /\ loggedIn' = TRUE
        /\ isRefreshing' = resolveRefreshing("ok")
        /\ subjectValue' = "true"
        /\ observers' = takeOne(observers, woken)
        /\ st' = [Wake(st, woken) EXCEPT ![r] = "replayI"]
        /\ replayed' = BumpReplay(replayed, SeqToSet(woken) \cup {r})
        /\ order401' = Without(order401, SeqToSet(woken) \cup {r})
        /\ stale' = stale \ SeqToSet(woken)
        /\ last' = [base EXCEPT !.replays = resendOrder(woken, r),
                                !.staleReplays = stale \cap SeqToSet(woken),
                                !.idleDrain = /\ woken # <<>>
                                              /\ ~FlagAt(switchMapBody, "next(true)",
                                                         isRefreshing)]
        /\ UNCHANGED <<currentUser, authChecked, caller, route, nav, inGuard,
                       homeVars, chatVars, refreshCalls, late401, seen401, sentLate>>

\* The transport answers the refresh call that request r's 401 started.
RefreshRespond(r, o) ==
    /\ st[r] = "refreshing"
    /\ refreshResolved' = TRUE
    /\ LET how == authInterceptorCatch(TRUE, o)
           base == [NoEffect EXCEPT !.act = "refreshRespond", !.out = o]
       IN  CASE o = "ok" -> RefreshSuccess(r, base)
             [] o # "ok" /\ how = "handle401" ->
                  \* not taken by authInterceptor (line 18 returns first): the
                  \* refresh request itself would enter handle401Error
                  /\ st' = [st EXCEPT ![r] =
                              IF handle401Branch(isRefreshing) = "wait"
                              THEN "stuck" ELSE "refreshing"]
                  /\ refreshCalls' =
                        IF handle401Branch(isRefreshing) = "wait"
                        THEN refreshCalls ELSE Bump(refreshCalls)
                  /\ last' = [base EXCEPT !.h401 = TRUE,
                                 !.refreshIssued = (handle401Branch(isRefreshing) # "wait")]
                  /\ UNCHANGED <<isRefreshing, subjectValue, observers, loggedIn,
                                 currentUser, authChecked, caller, route, nav, inGuard,
                                 homeVars, chatVars, stale, order401, replayed, late401,
                                 seen401, sentLate>>
             [] OTHER ->
                  TerminalFailure(r, catchErrorRethrow("refresh", o),
                                  IF how = "logoutRethrow" THEN 1 ELSE 0, base)

\* The transport answers the re-sent request r (next(req) inside switchMap).
ReplayRespond(r, o) ==
    /\ st[r] \in {"replayI", "replayW"}
    /\ LET base == [NoEffect EXCEPT !.act = "replayRespond", !.out = o]
       IN  IF o # "ok" /\ resendRoute(o) = "handle401"
           THEN \* not taken: the re-send would have to pass authInterceptor again
                /\ handle401Error(r, base)
                /\ UNCHANGED <<loggedIn, currentUser, authChecked, caller, route,
                               nav, inGuard, homeVars, chatVars, refreshResolved, sentLate>>
           ELSE IF st[r] = "replayI" /\ o # "ok"
           THEN \* the initiator's re-send is inside the pipe that catchError
                \* (line 54) closes
                /\ TerminalFailure(r, catchErrorRethrow("replay", o), 0, base)
                /\ UNCHANGED refreshResolved
           ELSE Deliver(r, <<"replay", o>>, base)

Next ==
    \/ \E r \in UserIds : Send(r)
    \/ \E r \in Ids, o \in Outcomes : Respond(r, o)
    \/ \E r \in Ids, o \in Outcomes : RefreshRespond(r, o)
    \/ \E r \in Ids, o \in Outcomes : ReplayRespond(r, o)

Spec == Init /\ [][Next]_vars

\* The transport eventually answers every call it is given: each request, each
\* refresh call and each re-send that is in flight gets its response.
Fairness ==
    \A r \in Ids :
        /\ WF_vars(\E o \in Outcomes : Respond(r, o))
        /\ WF_vars(\E o \in Outcomes : RefreshRespond(r, o))
        /\ WF_vars(\E o \in Outcomes : ReplayRespond(r, o))

FairSpec == Init /\ [][Next]_vars /\ Fairness

\* ------------------------------------------ the application around them
\* The next request number HttpClient hands out, within AppSpec's bound.
Fresh(r) ==
    /\ r \in AppReqs
    /\ st[r] = "new"
    /\ \A q \in UserIds : q < r => st[q] # "new"

\* A component subscribes to AuthService.checkAuthStatus(), as App.ngOnInit
\* does: the cached flag once _authChecked is set, GET /auth/me otherwise.
checkAuthStatus ==
    IF authChecked
    THEN /\ last' = [NoEffect EXCEPT !.act = "checkAuthStatus",
                                     !.check = Cached(loggedIn), !.cached = TRUE]
         /\ UNCHANGED <<isRefreshing, subjectValue, observers, st, loggedIn,
                        currentUser, authChecked, caller, route, nav, inGuard,
                        homeVars, chatVars, stale, order401, replayed, refreshCalls,
                        refreshResolved, late401, seen401, sentLate>>
    ELSE \E r \in AppReqs :
            /\ Fresh(r)
            /\ st' = [st EXCEPT ![r] = "sent"]
            /\ caller' = [caller EXCEPT ![r] = "app"]
            /\ sentLate' = (sentLate \/ refreshCalls > 0)
            /\ last' = [NoEffect EXCEPT !.act = "checkAuthStatus", !.http = TRUE]
            /\ UNCHANGED <<isRefreshing, subjectValue, observers, loggedIn,
                           currentUser, authChecked, route, nav, inGuard,
                           homeVars, chatVars, stale, order401, replayed, refreshCalls,
                           refreshResolved, late401, seen401>>

\* Home.onLogout (home.ts:169): Home is the component of route "/".
onLogout ==
    /\ route = "/"
    /\ FreeSlots(st) # {}
    /\ st' = logout(st, 1)
    /\ last' = [NoEffect EXCEPT !.act = "onLogout"]
    /\ UNCHANGED <<isRefreshing, subjectValue, observers, loggedIn, currentUser,
                   authChecked, caller, route, nav, inGuard, homeVars, chatVars, stale,
                   order401, replayed, refreshCalls, refreshResolved, late401,
                   seen401, sentLate>>

\* AuthService.setLoggedIn(value), called by a component.
setLoggedIn(value) ==
    /\ loggedIn' = value
    /\ authChecked' = TRUE
    /\ currentUser' = IF ~value THEN "null" ELSE currentUser
    /\ last' = [NoEffect EXCEPT !.act = "setLoggedIn"]
    /\ UNCHANGED <<isRefreshing, subjectValue, observers, st, caller, route, nav,
                   inGuard, homeVars, chatVars, stale, order401, replayed, refreshCalls,
                   refreshResolved, late401, seen401, sentLate>>

\* AuthService.setUser(user), called by a component.
setUser(user) ==
    /\ currentUser' = user
    /\ loggedIn' = IF user # "null" THEN TRUE ELSE loggedIn
    /\ authChecked' = IF user # "null" THEN TRUE ELSE authChecked
    /\ last' = [NoEffect EXCEPT !.act = "setUser"]
    /\ UNCHANGED <<isRefreshing, subjectValue, observers, st, caller, route, nav,
                   inGuard, homeVars, chatVars, stale, order401, replayed, refreshCalls,
                   refreshResolved, late401, seen401, sentLate>>

\* The user opens a URL or follows a link while the router is idle.
Navigate(t) ==
    /\ nav = NoNav
    /\ inGuard = NoNav
    /\ nav' = <<t, "user">>
    /\ last' = [NoEffect EXCEPT !.act = "navigate"]
    /\ UNCHANGED <<isRefreshing, subjectValue, observers, st, loggedIn,
                   currentUser, authChecked, caller, route, inGuard, homeVars, chatVars,
                   stale, order401, replayed, refreshCalls, refreshResolved,
                   late401, seen401, sentLate>>

\* The router begins the navigation it was asked for and runs the target's
\* guard: PrivateGuard / PublicGuard decide at once when auth has been
\* checked, and subscribe to checkAuthStatus() otherwise. The router runs one
\* navigation at a time.
Activate ==
    /\ nav # NoNav
    /\ inGuard = NoNav
    /\ IF authChecked
       THEN LET d == canActivate(GuardOf(nav[1]), loggedIn)
            IN  /\ route' = RouteAfter(d, nav[1])
                /\ nav' = NavAfter(d, NoNav)
                /\ last' = [NoEffect EXCEPT !.act = "activate",
                                !.guard = GuardOf(nav[1]), !.admit = d.admit,
                                !.guardNav = d.nav, !.navBy = nav[2]]
                /\ UNCHANGED <<st, caller, inGuard, sentLate>>
       ELSE \E r \in AppReqs :
                /\ Fresh(r)
                /\ st' = [st EXCEPT ![r] = "sent"]
                /\ caller' = [caller EXCEPT ![r] = "guard"]
                /\ sentLate' = (sentLate \/ refreshCalls > 0)
                /\ inGuard' = nav
                /\ nav' = NoNav
                /\ last' = [NoEffect EXCEPT !.act = "activate", !.http = TRUE]
                /\ UNCHANGED route
    /\ UNCHANGED <<isRefreshing, subjectValue, observers, loggedIn, currentUser,
                   authChecked, homeVars, chatVars, stale, order401, replayed, refreshCalls,
                   refreshResolved, late401, seen401>>

\* The interceptor and the transport together with AuthService's callers, the
\* guards and the router.
AppNext ==
    \/ \E r \in AppReqs : Send(r)
    \/ \E r \in Ids, o \in Outcomes : Respond(r, o)
    \/ \E r \in Ids, o \in Outcomes : RefreshRespond(r, o)
    \/ \E r \in Ids, o \in Outcomes : ReplayRespond(r, o)
    \/ checkAuthStatus
    \/ onLogout
    \/ \E t \in Targets : Navigate(t)
    \/ Activate

AppSpec == Init /\ [][AppNext]_vars

\* AuthService with every operation it offers, its callers (the guards behind
\* the router, App, Home.onLogout, the interceptor) and the transport; the
\* only requests are AuthService's own.
WithinAuthBound == \A r \in UserIds : r > NumAuthReq => st[r] = "new"

AuthNext ==
    \/ checkAuthStatus /\ WithinAuthBound'
    \/ onLogout
    \/ \E value \in BOOLEAN : setLoggedIn(value)
    \/ \E user \in {"null", "user"} : setUser(user)
    \/ \E t \in Targets : Navigate(t)
    \/ Activate /\ WithinAuthBound'
    \/ \E r \in Ids, o \in Outcomes : Respond(r, o)
    \/ \E r \in Ids, o \in Outcomes : RefreshRespond(r, o)
    \/ \E r \in Ids, o \in Outcomes : ReplayRespond(r, o)

AuthSpec == Init /\ [][AuthNext]_vars

\* ------------------------------------------------------------------ Home
\* Home has been constructed and ngOnInit has run: PrivateGuard admitted the
\* navigation to "/", so the user is logged in, and loadChatHistory() has sent
\* its GET.
HomeInit ==
    /\ isRefreshing = FALSE
    /\ subjectValue = "null"
    /\ observers = <<>>
    /\ st = [r \in Ids |-> IF r = 1 THEN "sent" ELSE IF r \in UserIds THEN "new" ELSE "free"]
    /\ loggedIn = TRUE
    /\ currentUser \in {"null", "user"}
    /\ authChecked = TRUE
    /\ caller = [r \in UserIds |-> IF r = 1 THEN "history" ELSE "api"]
    /\ route = "/"
    /\ nav = NoNav
    /\ inGuard = NoNav
    /\ currentImage = "null"
    /\ messages = <<>>
    /\ isLoading = FALSE
    /\ chatHistory = <<>>
    /\ historyLoading = TRUE
    /\ chatItem = <<>>
    /\ loading = TRUE
    /\ wantedId = <<>>
    /\ chatPhase = "none"
    /\ stale = {}
    /\ order401 = <<>>
    /\ replayed = [r \in Ids |-> 0]
    /\ refreshCalls = 0
    /\ refreshResolved = FALSE
    /\ late401 = FALSE
    /\ seen401 = FALSE
    /\ sentLate = FALSE
    /\ last = NoEffect

\* Home.onImageSelected: the uploader hands over an image.
onImageSelected ==
    /\ route = "/"
    /\ currentImage' = "img"
    /\ last' = [NoEffect EXCEPT !.act = "onImageSelected"]
    /\ UNCHANGED <<isRefreshing, subjectValue, observers, st, loggedIn,
                   currentUser, authChecked, caller, route, nav, inGuard,
                   messages, isLoading, chatHistory, historyLoading, chatVars,
                   stale, order401, replayed, refreshCalls, refreshResolved,
                   late401, seen401, sentLate>>

\* if (!image) return;
hasImage_Always(image) == TRUE

hasImage(image) == image # "null"

\* Home.onSummarize: nothing without an image; otherwise the user message,
\* isLoading and the POST through HttpClient.
onSummarize ==
    /\ route = "/"
    /\ IF ~hasImage(currentImage)
       THEN /\ last' = [NoEffect EXCEPT !.act = "onSummarize"]
            /\ UNCHANGED <<st, caller, messages, isLoading, sentLate>>
       ELSE \E r \in UserIds :
                /\ st[r] = "new"
                /\ \A q \in UserIds : q < r => st[q] # "new"
                /\ st' = [st EXCEPT ![r] = "sent"]
                /\ caller' = [caller EXCEPT ![r] = "home"]
                /\ messages' = Append(messages, userMessage(r))
                /\ isLoading' = TRUE
                /\ sentLate' = (sentLate \/ refreshCalls > 0)
                /\ last' = [NoEffect EXCEPT !.act = "onSummarize", !.http = TRUE]
    /\ UNCHANGED <<isRefreshing, subjectValue, observers, loggedIn, currentUser,
                   authChecked, route, nav, inGuard, currentImage, chatHistory,
                   historyLoading, chatVars, stale, order401, replayed,
                   refreshCalls, refreshResolved, late401, seen401>>

\* Home with the interceptor and the transport under it.
HomeNext ==
    \/ onImageSelected
    \/ onSummarize
    \/ \E r \in Ids, o \in Outcomes : Respond(r, o)
    \/ \E r \in Ids, o \in Outcomes : RefreshRespond(r, o)
    \/ \E r \in Ids, o \in Outcomes : ReplayRespond(r, o)

HomeSpec == HomeInit /\ [][HomeNext]_vars

\* ------------------------------------------------------------ ChatDetail
\* What history.state can hold as chatItem (<<>> when there is none: a reload
\* or a typed URL) and what the route gives as id.
NavItems == {<<>>, <<0>>, <<5>>}

ParamIds == {"none", "0", "7", "x"}

\* ChatDetail has been constructed: PrivateGuard admitted the navigation to
\* "chat/:id", so the user is logged in.
ChatInit ==
    /\ isRefreshing = FALSE
    /\ subjectValue = "null"
    /\ observers = <<>>
    /\ st = [r \in Ids |-> IF r \in UserIds THEN "new" ELSE "free"]
    /\ loggedIn = TRUE
    /\ currentUser \in {"null", "user"}
    /\ authChecked = TRUE
    /\ caller = [r \in UserIds |-> "api"]
    /\ route = "/chat/:id"
    /\ nav = NoNav
    /\ inGuard = NoNav
    /\ currentImage = "null"
    /\ messages = <<>>
    /\ isLoading = FALSE
    /\ chatHistory = <<>>
    /\ historyLoading = FALSE
    /\ chatItem = <<>>
    /\ loading = TRUE
    /\ wantedId = <<>>
    /\ chatPhase = "constructed"
    /\ stale = {}
    /\ order401 = <<>>
    /\ replayed = [r \in Ids |-> 0]
    /\ refreshCalls = 0
    /\ refreshResolved = FALSE
    /\ late401 = FALSE
    /\ seen401 = FALSE
    /\ sentLate = FALSE
    /\ last = NoEffect

\* if (id): a string is truthy unless it is empty; get('id') is null when the
\* route has no such parameter.
hasId(p) == p # "none"

\* ChatDetail.ngOnInit with item in history.state and p as the route's id;
\* loadChatById(Number(id)) is part of it.
ngOnInit(item, p) ==
    /\ chatPhase = "constructed"
    /\ chatPhase' = "done"
    /\ IF item # <<>>
       THEN /\ chatItem' = item
            /\ loading' = FALSE
            /\ last' = [NoEffect EXCEPT !.act = "ngOnInit", !.navItem = item,
                                        !.param = p]
            /\ UNCHANGED <<st, caller, wantedId, sentLate>>
       ELSE IF hasId(p)
       THEN \E r \in UserIds :
                /\ st[r] = "new"
                /\ \A q \in UserIds : q < r => st[q] # "new"
                /\ loading' = TRUE
                /\ wantedId' = <<ToNumber(p)>>
                /\ st' = [st EXCEPT ![r] = "sent"]
                /\ caller' = [caller EXCEPT ![r] = "chat"]
                /\ sentLate' = (sentLate \/ refreshCalls > 0)
                /\ last' = [NoEffect EXCEPT !.act = "ngOnInit", !.http = TRUE,
                                            !.navItem = item, !.param = p]
                /\ UNCHANGED chatItem
       ELSE /\ loading' = FALSE
            /\ last' = [NoEffect EXCEPT !.act = "ngOnInit", !.navItem = item,
                                        !.param = p]
            /\ UNCHANGED <<st, caller, chatItem, wantedId, sentLate>>
    /\ UNCHANGED <<isRefreshing, subjectValue, observers, loggedIn, currentUser,
                   authChecked, route, nav, inGuard, homeVars, stale, order401,
                   replayed, refreshCalls, refreshResolved, late401, seen401>>

WithinChatBound == \A r \in UserIds \ ChatReqs : st[r] = "new"

\* ChatDetail with the interceptor and the transport under it, and the
\* requests other code sends meanwhile.
ChatNext ==
    \/ \E item \in NavItems, p \in ParamIds :
           ngOnInit(item, p) /\ WithinChatBound'
    \/ \E r \in ChatReqs : Send(r)
    \/ \E r \in Ids, o \in Outcomes : Respond(r, o)
    \/ \E r \in Ids, o \in Outcomes : RefreshRespond(r, o)
    \/ \E r \in Ids, o \in Outcomes : ReplayRespond(r, o)

ChatSpec == ChatInit /\ [][ChatNext]_vars

\* ---------------------------------------------------------------- claims
RefreshInFlight == {r \in Ids : st[r] = "refreshing"}

Waiting == {r \in Ids : st[r] = "waiting"}

CallInFlight == {r \in Ids : st[r] \in {"sent", "refreshing", "replayI", "replayW"}}

Resolved(s, r) == s[r] \in {"done", "free"}

RefreshFailed(e) == e.act = "refreshRespond" /\ e.out # "ok"

RefreshGot401(e) == e.act = "refreshRespond" /\ e.out = "e401"

\* C1: in every reachable state at most one refresh call is in flight.
C1_AtMostOneRefreshInFlight == Cardinality(RefreshInFlight) <= 1

\* C2 as stated: when every request was sent before any refresh call and at
\* least one of them received a 401, exactly one refresh call has been issued,
\* also when a 401 arrives after the refresh has resolved.
C2_ExactlyOneRefreshEver == (seen401 /\ ~sentLate) => refreshCalls = 1

\* C2 amended: when at least one request received a 401 and every 401 so far
\* arrived before any refresh call was answered, exactly one refresh call has
\* been issued.
C2_ExactlyOneRefreshUntilResolved == (seen401 /\ ~late401) => refreshCalls = 1

\* Two requests received a 401, one refresh call served both and has resolved.
C2_Witness ==
    /\ seen401 /\ ~late401 /\ refreshResolved /\ refreshCalls = 1
    /\ \E r, q \in UserIds : st[r] = "replayI" /\ st[q] = "replayW"

\* C3: in the step in which a refresh call fails, every request queued behind
\* it is completed toward its caller with its own original 401 error.
C3_QueuedFailWithOriginalError ==
    [][RefreshFailed(last') =>
         \A q \in Ids : st[q] = "waiting" =>
             (Resolved(st', q) /\ q \in last'.origErr)]_vars

\* C4: every request that received a 401 gets resolved once the transport has
\* answered every call it was given: when no request, refresh call or re-send
\* is in flight, no request is still parked behind a refresh.
C4_NoWaiterLeftWhenTransportIdle == CallInFlight = {} => Waiting = {}

\* C5: the coordinator calls AuthService.logout and router.navigate(['/login'])
\* only in a step in which the refresh call itself fails.
C5_LogoutOnlyWhenRefreshFails ==
    (last.logouts > 0 \/ last.navLogin > 0) => RefreshFailed(last)

\* C6: no request is re-sent by the coordinator more than once.
C6_ReplayedAtMostOnce == \A r \in Ids : replayed[r] <= 1

\* A request was re-sent and completed, and a later refresh cycle has run.
C6_Witness ==
    \E r \in UserIds : st[r] = "done" /\ replayed[r] = 1 /\ refreshCalls >= 2

\* C7: a 401 from the refresh endpoint does not enter handle401Error, issues
\* no refresh call, and reaches the caller as the refresh call's own 401.
C7_RefreshUrl401NotHandled ==
    RefreshGot401(last) =>
        /\ ~last.h401
        /\ ~last.refreshIssued
        /\ last.delivered = <<"refresh", "e401">>

\* The refresh call was just answered with a 401.
C7_Witness == RefreshGot401(last)

\* C8: once a refresh call has returned 401, only finitely many further
\* refresh calls are issued: from some point on no refresh call is in flight.
C8_FinitelyManyRefreshCalls ==
    [](RefreshGot401(last) => <>[](RefreshInFlight = {}))

\* C9: in the step in which the refresh call is answered with 401,
\* AuthService.logout is invoked exactly once.
C9_LogoutOnceOnRefresh401 == RefreshGot401(last) => last.logouts = 1

\* C10: the requests queued behind a refresh are re-sent in the order in which
\* their 401 responses arrived.
C10_WaitersReplayedInArrivalOrder ==
    [][\A i, j \in 1..Len(last'.replays) :
          (/\ i < j
           /\ st[last'.replays[i]] = "waiting"
           /\ st[last'.replays[j]] = "waiting")
          => IndexOf(order401, last'.replays[i]) < IndexOf(order401, last'.replays[j])]_vars

\* A refresh just succeeded with three requests queued behind it, all of which
\* queued while that refresh was in flight.
C10_Witness ==
    /\ last.act = "refreshRespond" /\ last.out = "ok"
    /\ Len(last.replays) >= 4
    /\ last.staleReplays = {}

\* C11 as stated: when the refresh call that request A started succeeds, A is
\* re-sent before every request B whose 401 arrived while that refresh was in
\* progress.
C11_InitiatorReplayedFirst ==
    [][(last'.act = "refreshRespond" /\ last'.out = "ok") =>
         \A a \in RefreshInFlight, b \in Waiting \ stale :
             (/\ st'[a] = "replayI"
              /\ st'[b] = "replayW"
              /\ IndexOf(order401, a) < IndexOf(order401, b))
             => IndexOf(last'.replays, a) < IndexOf(last'.replays, b)]_vars

\* C11 amended: when the refresh call that request A started succeeds, every
\* request B whose 401 arrived while that refresh was in progress is re-sent
\* before A; the initiating request is re-sent last.
C11_WaitersReplayedBeforeInitiator ==
    [][(last'.act = "refreshRespond" /\ last'.out = "ok") =>
         \A a \in RefreshInFlight, b \in Waiting \ stale :
             (/\ st'[a] = "replayI"
              /\ st'[b] = "replayW"
              /\ IndexOf(order401, a) < IndexOf(order401, b))
             => IndexOf(last'.replays, b) < IndexOf(last'.replays, a)]_vars

\* The first refresh call just succeeded with a request queued behind it.
C11_Witness ==
    /\ last.act = "refreshRespond" /\ last.out = "ok"
    /\ Len(last.replays) = 2
    /\ last.staleReplays = {}
    /\ refreshCalls = 1

\* C12: the step in which a refresh call is answered, with a response or with
\* any failure, ends with isRefreshing false; isRefreshing then stays false
\* until a 401 enters handle401Error, and that 401 starts exactly one refresh
\* call.
C12_IdleAfterRefreshResolves ==
    [][/\ last'.act = "refreshRespond" => ~isRefreshing'
       /\ (~isRefreshing /\ ~last'.h401) => ~isRefreshing'
       /\ (~isRefreshing /\ last'.h401) =>
             /\ last'.refreshIssued
             /\ isRefreshing'
             /\ Cardinality(RefreshInFlight') = Cardinality(RefreshInFlight) + 1]_vars

\* A 401 that arrived after a refresh call had been answered has just started
\* the second refresh call.
C12_Witness ==
    /\ late401 /\ last.h401 /\ last.refreshIssued
    /\ refreshCalls = 2

C14_CallerSeesOnlyTheResend ==
    /\ last.delivered[2] = "e401" => last.delivered[1] # "orig"
    /\ last.act = "replayRespond" => last.delivered = <<"replay", last.out>>

\* The request that started a refresh was re-sent once and its caller has just
\* received the response of that re-send.
C14_Witness ==
    /\ last.act = "replayRespond"
    /\ last.delivered = <<"replay", "ok">>
    /\ \E r \in UserIds : st[r] = "done" /\ replayed[r] = 1
    /\ Waiting = {}

\* C15: in the state right after a step that called AuthService.logout(),
\* from the interceptor or from Home.onLogout, isLoggedIn() is false and
\* currentUser is null.
C15_LogoutClearsSessionAtOnce ==
    (last.logouts > 0 \/ last.act = "onLogout") =>
        (~loggedIn /\ currentUser = "null")

\* C16: PublicGuard admits the navigation to /login that the coordinator asked
\* for after a terminal failure; it does not turn it back to "/".
C16_CoordinatorLoginNotBounced ==
    (last.guard = "public" /\ last.navBy = "coordinator") => last.admit

\* C17: the step in which a refresh call fails completes the request that
\* started it, and hands its caller the error the refresh call raised.
C17_InitiatorFailsWithRefreshError ==
    [][RefreshFailed(last') =>
         /\ last'.delivered = <<"refresh", last'.out>>
         /\ last'.out # "ok"
         /\ \E r \in RefreshInFlight : st'[r] # "refreshing"]_vars

\* A refresh call has just failed with an error other than 401.
C17_Witness == RefreshFailed(last) /\ last.out = "err"

\* C18: PrivateGuard returns true exactly when the user is logged in (the
\* cached flag once auth has been checked, the result of checkAuthStatus()
\* otherwise); an admitted navigation activates "/", a denied one makes the
\* guard navigate to /login.
C18_PrivateGuardAdmitsOnlyLoggedIn ==
    last.guard = "private" =>
        /\ last.admit <=> loggedIn
        /\ last.check # "none" => (last.admit <=> last.check = "true")
        /\ last.admit => (last.guardNav = "none" /\ route = "/")
        /\ ~last.admit => (last.guardNav = "/login" /\ nav = <<"/login", "guard">>)

\* PrivateGuard waited for checkAuthStatus(), received false and turned the
\* navigation to /login.
C18_Witness ==
    /\ last.guard = "private" /\ last.check = "false"
    /\ ~last.admit
    /\ nav = <<"/login", "guard">>

\* C19: PublicGuard returns true exactly when the login status (cached or
\* freshly checked) is false; an admitted navigation activates /login, a
\* denied one makes the guard navigate to "/".
C19_PublicGuardAdmitsOnlyLoggedOut ==
    last.guard = "public" =>
        /\ last.admit <=> ~loggedIn
        /\ last.check # "none" => (last.admit <=> last.check = "false")
        /\ last.admit => (last.guardNav = "none" /\ route = "/login")
        /\ ~last.admit => (last.guardNav = "/" /\ nav = <<"/", "guard">>)

\* PublicGuard read the cached flag of a logged-in user and turned the
\* navigation to "/".
C19_Witness ==
    /\ last.guard = "public" /\ last.check = "none"
    /\ ~last.admit
    /\ loggedIn
    /\ nav = <<"/", "guard">>

\* C20: checkAuthStatus() never hands its subscriber an error; when GET
\* /auth/me succeeds it hands over true with _loggedIn true and currentUser
\* set, when it fails it hands over false with _loggedIn false and currentUser
\* null, and _authChecked is true afterwards; a call made when _authChecked is
\* true hands over the cached _loggedIn and sends no request.
C20_CheckAuthStatusNeverFails ==
    [][/\ last'.check # "error"
       /\ (last'.check # "none" /\ ~last'.cached) =>
             /\ authChecked'
             /\ IF last'.delivered[2] = "ok"
                THEN last'.check = "true" /\ loggedIn' /\ currentUser' = "user"
                ELSE last'.check = "false" /\ ~loggedIn' /\ currentUser' = "null"
       /\ (authChecked /\ last'.act = "checkAuthStatus") =>
             /\ last'.check = (IF loggedIn THEN "true" ELSE "false")
             /\ st' = st
             /\ loggedIn' = loggedIn /\ currentUser' = currentUser]_vars

\* GET /auth/me got a 401, the refresh call it started got a 401 as well, and
\* the subscriber of checkAuthStatus() has just received false.
C20_Witness ==
    /\ last.check = "false"
    /\ last.delivered = <<"refresh", "e401">>
    /\ authChecked

\* C23: a request queued behind a refresh is resolved by that refresh: no
\* successful refresh re-sends a request that had stayed queued since an
\* earlier refresh failed.
C23_ResolvedByOwnCycle == last.staleReplays = {}

\* C24: when a refresh succeeds, the queued requests are re-sent before
\* isRefreshing is set back to false.
C24_DrainBeforeIdle == ~last.idleDrain

\* C25: the step in which a re-sent request is answered with 401 hands that
\* 401 to the caller, does not enter handle401Error and starts no refresh
\* call; a request starts a refresh call only on its first response, so at
\* most once.
C25_ResendIsNotRefreshedAgain ==
    [][/\ (last'.act = "replayRespond" /\ last'.out = "e401") =>
             /\ last'.delivered = <<"replay", "e401">>
             /\ ~last'.h401
             /\ ~last'.refreshIssued
             /\ RefreshInFlight' \subseteq RefreshInFlight
       /\ \A r \in Ids :
             (st[r] # "refreshing" /\ st'[r] = "refreshing") =>
                 (st[r] = "sent" /\ replayed[r] = 0)]_vars

\* A queued request was re-sent after a successful refresh and its caller has
\* just received the 401 of that re-send.
C25_Witness ==
    /\ last.act = "replayRespond" /\ last.out = "e401"
    /\ last.delivered = <<"replay", "e401">>
    /\ last.logouts = 0
    /\ ~isRefreshing

\* C26: in every state between two tasks, isRefreshing = true implies that the
\* subject's current value is null.
C26_RefreshingImpliesSubjectNull == isRefreshing => subjectValue = "null"

\* A second refresh is in progress after an earlier one has resolved, and a
\* request is queued behind it.
C26_Witness ==
    /\ isRefreshing /\ refreshResolved
    /\ refreshCalls = 2
    /\ \E q \in Waiting : q \notin stale

LogoutInFlight == {l \in LogoutIds : st[l] # "free"}

\* C27: the step in which a refresh call fails with an error that is not a
\* 401 calls AuthService.logout exactly once (one more /auth/logout request is
\* in flight) and router.navigate(['/login']) exactly once.
C27_LogoutOnceOnRefreshError ==
    [][(last'.act = "refreshRespond" /\ last'.out = "err") =>
         /\ last'.logouts = 1
         /\ last'.navLogin = 1
         /\ Cardinality(LogoutInFlight') <= Cardinality(LogoutInFlight) + 1
         /\ LogoutInFlight' # {}]_vars

\* A refresh call that a user request had started has just failed with a
\* network error, and the coordinator's navigation to /login is pending.
C27_Witness ==
    /\ last.act = "refreshRespond" /\ last.out = "err"
    /\ last.to = "api"
    /\ nav = <<"/login", "coordinator">>

\* C21: in the state right after the subscriber of an /auth/logout request
\* received its result, a response or an error, _loggedIn is false,
\* currentUser is null and a navigation to /login is asked for.
C21_LogoutResolvedClearsSession ==
    last.to = "logout" =>
        /\ ~loggedIn
        /\ currentUser = "null"
        /\ nav = <<"/login", "logout">>

\* The /auth/logout request of a user whose auth had been checked has just
\* failed.
C21_Witness ==
    /\ last.to = "logout" /\ last.out = "err"
    /\ authChecked
    /\ route = "/"

\* C22: in every state, isLoggedIn() = false implies getUser() = null.
C22_LoggedOutHasNoUser == ~loggedIn => currentUser = "null"

\* Home was active, so the user had been logged in, and the /auth/logout
\* request has just been answered: logged out, no user.
C22_Witness ==
    /\ last.to = "logout" /\ last.out = "ok"
    /\ route = "/"
    /\ ~loggedIn /\ currentUser = "null"

\* C28: no step sets _authChecked back to false, and a guard that runs when
\* _authChecked is true decides in that step and sends no request.
C28_AuthCheckedMonotonic ==
    [][/\ authChecked => authChecked'
       /\ (authChecked /\ last'.act = "activate") =>
             /\ last'.guard # "none"
             /\ ~last'.http
             /\ st' = st]_vars

\* After a logout the router ran PublicGuard for the navigation the logout
\* subscriber had asked for, and the guard decided from the cached flag.
C28_Witness ==
    /\ last.act = "activate" /\ last.guard = "public"
    /\ last.navBy = "logout"
    /\ last.admit
    /\ authChecked


\* The messages of type t that belong to the onSummarize call that sent r.
MessagesOf(r, t) == SelectSeq(messages, LAMBDA m : m.of = r /\ m.type = t)

\* Every call has its one user message, and its one AI message exactly when
\* its request has resolved.
MessageLedger ==
    \A r \in UserIds :
        /\ Len(MessagesOf(r, "user")) = (IF IsSummarize(r) THEN 1 ELSE 0)
        /\ Len(MessagesOf(r, "ai")) =
               (IF IsSummarize(r) /\ Resolved(st, r) THEN 1 ELSE 0)

\* C29: a call of Home.onSummarize with an image selected appends exactly one
\* user message in the same step; the step in which its request resolves
\* appends exactly one AI message, the summary on success and a message with
\* isError on failure; no other step changes the list, so messages already
\* in it are never removed or reordered.
C29_OneUserThenOneAiMessagePerCall ==
    [][/\ (last'.act = "onSummarize" /\ currentImage # "null") =>
              \E r \in UserIds :
                  /\ st[r] = "new" /\ st'[r] = "sent"
                  /\ messages' = Append(messages,
                         [type |-> "user", isError |-> FALSE, of |-> r])
       /\ last'.to = "home" =>
              \E r \in UserIds :
                  /\ IsSummarize(r) /\ ~Resolved(st, r) /\ Resolved(st', r)
                  /\ messages' = Append(messages,
                         [type |-> "ai", isError |-> (last'.delivered[2] # "ok"),
                          of |-> r])
       /\ messages' # messages =>
              ((last'.act = "onSummarize" /\ currentImage # "null")
                  \/ last'.to = "home")
       /\ MessageLedger']_vars

\* Two overlapping calls went through a token refresh; one got its summary and
\* the other an error message.
C29_Witness ==
    /\ Len(messages) = 4
    /\ messages[1].type = "user" /\ messages[2].type = "user"
    /\ messages[3].type = "ai" /\ messages[4].type = "ai"
    /\ messages[3].isError # messages[4].isError
    /\ messages[3].of = messages[2].of
    /\ refreshCalls > 0
    /\ last.to = "home"

\* C30: every onSummarize call that set isLoading is followed by isLoading
\* being false once the transport has answered every call it was given: when
\* no request, refresh call or re-send is in flight, isLoading is false.
C30_NotLoadingWhenTransportIdle == CallInFlight = {} => ~isLoading


\* The summarize requests onSummarize has sent that have not resolved.
SummarizePending == {r \in UserIds : IsSummarize(r) /\ ~Resolved(st, r)}

\* C31: isLoading is true in every state in which a summarize request sent by
\* onSummarize is still unresolved, also when two calls overlap and the
\* first resolves before the second.
C31_LoadingWhileSummarizePending == SummarizePending # {} => isLoading


\* C32: a call of Home.onSummarize while currentImage is null changes neither
\* messages nor isLoading nor chatHistory, and sends no request.
C32_NoImageNoEffect ==
    [][(last'.act = "onSummarize" /\ currentImage = "null") =>
           /\ messages' = messages
           /\ isLoading' = isLoading
           /\ chatHistory' = chatHistory
           /\ st' = st
           /\ ~last'.http]_vars

\* onSummarize has just returned at the image check, with messages and a
\* history entry from an earlier call and another call still unresolved.
C32_Witness ==
    /\ last.act = "onSummarize" /\ ~last.http
    /\ currentImage = "null"
    /\ messages # <<>> /\ chatHistory # <<>>
    /\ SummarizePending # {}


\* The request loadChatById has sent and that has not resolved.
ChatPending == {r \in UserIds : IsChat(r) /\ ~Resolved(st, r)}

\* C33: ChatDetail.ngOnInit with a chatItem in the navigation state shows
\* that item, sets loading false and sends no request; otherwise with an id
\* it sends the history request; with neither it sets loading false. The
\* step in which that request resolves sets loading false, and on success
\* sets chatItem to the history entry with that id, or to null when none
\* matches. So once ngOnInit has run and no request of it is unresolved,
\* loading is false.
C33_LoadingEndsFalse ==
    [][/\ (last'.act = "ngOnInit" /\ last'.navItem # <<>>) =>
              /\ chatItem' = last'.navItem
              /\ ~loading'
              /\ st' = st
       /\ (last'.act = "ngOnInit" /\ last'.navItem = <<>>
                                  /\ last'.param # "none") =>
              /\ \E r \in UserIds :
                     /\ st[r] = "new" /\ st'[r] = "sent"
                     /\ caller'[r] = "chat"
              /\ chatItem' = chatItem
       /\ (last'.act = "ngOnInit" /\ last'.navItem = <<>>
                                  /\ last'.param = "none") =>
              /\ ~loading'
              /\ st' = st
       /\ last'.to = "chat" =>
              /\ ~loading'
              /\ chatItem' =
                    IF last'.delivered[2] # "ok" THEN chatItem
                    ELSE IF \E i \in 1..Len(ServerHistory) :
                                ServerHistory[i] = Head(wantedId)
                    THEN wantedId
                    ELSE <<>>
       /\ (chatPhase' = "done" /\ ChatPending' = {}) => ~loading']_vars

\* loadChatById's request got a 401 while another request's refresh was in
\* progress, was re-sent after it and answered: the item is shown.
C33_Witness ==
    /\ last.to = "chat" /\ last.act = "replayRespond" /\ last.out = "ok"
    /\ chatPhase = "done"
    /\ chatItem = <<0>>
    /\ ~loading
    /\ \E r \in UserIds : IsChat(r) /\ replayed[r] = 1 /\ refreshCalls = 1
    /\ \E q \in UserIds : ~IsChat(q) /\ replayed[q] = 1

====
